---------------------------- MODULE Spec2Model ----------------------------
(***************************************************************************)
(* PoeApiWrapperChatModel (magentic chat-model adapter over poe-api-       *)
(* wrapper): construction, the lazily created PoeApi session, and the      *)
(* response coercion pipeline of complete / acomplete.                     *)
(*                                                                         *)
(* Python values are encoded as follows.                                   *)
(*   - a str is a sequence of one-character strings;                       *)
(*   - None is the string "None" where a str is expected (no token or    *)
(*     model name is spelled "None"), <<"None">> where a list is expected *)
(*     and 0 where an object is expected (objects are numbered from 1);   *)
(*   - a JSON value is a record [kind, src, items]: kind is one of         *)
(*     "null", "bool", "num", "str", "list", "obj"; src is the value's     *)
(*     text without insignificant whitespace; items lists the members      *)
(*     of an object in document order (empty for every other kind).        *)
(***************************************************************************)
EXTENDS Integers, Sequences, FiniteSets, TLC

(***************************************************************************)
(* Bounds of the model.                                                    *)
(***************************************************************************)
\* every text over Alphabet of at most this length is a backend reply
MaxTextLen == 2
\* output_types holds at most this many types
MaxOutputTypes == 2
\* PoeApi objects constructed on one adapter (one suffices for the code)
MaxSessions == 3

None == "None"
NoneList == <<None>>
NoObject == 0

(***************************************************************************)
(* Characters.                                                             *)
(***************************************************************************)
LBrace == "{"
RBrace == "}"
LBrack == "["
RBrack == "]"
Comma == ","
Colon == ":"
Quote == "\""
Newline == "\n"
Space == " "
Digits == {"0", "1", "2", "3", "4", "5", "6", "7", "8", "9"}

\* the characters the exhaustive short replies are drawn from
Alphabet == {LBrace, RBrace, Comma, Quote, Newline}

Max(a, b) == IF a >= b THEN a ELSE b
Min(a, b) == IF a <= b THEN a ELSE b

(***************************************************************************)
(* str.find / str.rfind of one character (0-based, -1 when absent) and     *)
(* Python's slice s[start:stop].                                           *)
(***************************************************************************)
find(s, c) ==
    IF \E i \in 1..Len(s) : s[i] = c
    THEN (CHOOSE i \in 1..Len(s) :
              s[i] = c /\ \A j \in 1..(i - 1) : s[j] # c) - 1
    ELSE -1

rfind(s, c) ==
    IF \E i \in 1..Len(s) : s[i] = c
    THEN (CHOOSE i \in 1..Len(s) :
              s[i] = c /\ \A j \in (i + 1)..Len(s) : s[j] # c) - 1
    ELSE -1

\* a slice bound as Python normalises it: negative counts from the end,
\* then clamped to 0..len
SliceIndex(n, len) == IF n < 0 THEN Max(n + len, 0) ELSE Min(n, len)

Slice(s, start, stop) ==
    LET a == SliceIndex(start, Len(s))
        b == SliceIndex(stop, Len(s))
    IN  IF a < b THEN SubSeq(s, a + 1, b) ELSE <<>>

(***************************************************************************)
(* clean_json_string: two regular-expression substitutions.                *)
(***************************************************************************)
\* \s of the re module, within the characters that occur
IsReSpace(c) == c \in {Space, Newline, "\t", "\r"}

RECURSIVE SkipReSpace(_, _)
SkipReSpace(s, i) ==
    IF i <= Len(s) /\ IsReSpace(s[i]) THEN SkipReSpace(s, i + 1) ELSE i

\* re.sub(r',(\s*[\]}])', r'\1', s) from position i on: matches are found
\* left to right and do not overlap
RECURSIVE SubTrailingCommas(_, _)
SubTrailingCommas(s, i) ==
    IF i > Len(s) THEN <<>>
    ELSE LET j == SkipReSpace(s, i + 1)
         IN  IF s[i] = Comma /\ j <= Len(s) /\ s[j] \in {RBrack, RBrace}
             THEN SubSeq(s, i + 1, j) \o SubTrailingCommas(s, j + 1)
             ELSE <<s[i]>> \o SubTrailingCommas(s, i + 1)

RECURSIVE CountQuotes(_, _)
CountQuotes(s, i) ==
    IF i > Len(s) THEN 0
    ELSE (IF s[i] = Quote THEN 1 ELSE 0) + CountQuotes(s, i + 1)

\* the lookahead (?=(?:[^"]*"[^"]*")*[^"]*$) at position i: the rest of the
\* string holds an even number of double quotes
EvenQuotesAhead(s, i) == CountQuotes(s, i) % 2 = 0

\* re.sub(r'\n(?=(?:[^"]*"[^"]*")*[^"]*$)', '', s) from position i on
RECURSIVE SubNewlines(_, _)
SubNewlines(s, i) ==
    IF i > Len(s) THEN <<>>
    ELSE IF s[i] = Newline /\ EvenQuotesAhead(s, i + 1)
         THEN SubNewlines(s, i + 1)
         ELSE <<s[i]>> \o SubNewlines(s, i + 1)

clean_json_string(json_str) == SubNewlines(SubTrailingCommas(json_str, 1), 1)

\* cleaned_json[cleaned_json.find("{"):cleaned_json.rfind("}") + 1]
json_limiter(cleaned_json) ==
    Slice(cleaned_json, find(cleaned_json, LBrace), rfind(cleaned_json, RBrace) + 1)

(***************************************************************************)
(* json.loads (strict): a recursive-descent decoder.  Every failure is a   *)
(* JSONDecodeError.  Escapes in strings, fractions and exponents are not   *)
(* decoded: no reply of the model holds a backslash, '.', 'e' or 'E'       *)
(* outside a string.                                                       *)
(***************************************************************************)
IsJsonWs(c) == c \in {Space, Newline, "\t", "\r"}

RECURSIVE SkipJsonWs(_, _)
SkipJsonWs(s, i) ==
    IF i <= Len(s) /\ IsJsonWs(s[i]) THEN SkipJsonWs(s, i + 1) ELSE i

JsonValue(kind, src, items) == [kind |-> kind, src |-> src, items |-> items]
JsonNull == JsonValue("null", <<"n", "u", "l", "l">>, <<>>)
EmptyList == JsonValue("list", <<LBrack, RBrack>>, <<>>)
EmptyDict == JsonValue("obj", <<LBrace, RBrace>>, <<>>)

Decoded(val, nxt) == [ok |-> TRUE, nxt |-> nxt, val |-> val]
DecodeError == [ok |-> FALSE, nxt |-> 0, val |-> JsonNull]

StartsWith(s, i, lit) ==
    /\ i + Len(lit) - 1 <= Len(s)
    /\ SubSeq(s, i, i + Len(lit) - 1) = lit

\* scanstring: i is the position after the opening quote; the result's nxt
\* is the position after the closing quote, its val.src the characters
\* between the quotes
RECURSIVE ScanString(_, _, _)
ScanString(s, i, acc) ==
    IF i > Len(s) THEN DecodeError
    ELSE IF s[i] = Quote THEN Decoded(JsonValue("str", acc, <<>>), i + 1)
    ELSE IF s[i] \in {Newline, "\t", "\r", "\\"} THEN DecodeError
    ELSE ScanString(s, i + 1, Append(acc, s[i]))

RECURSIVE ScanDigits(_, _)
ScanDigits(s, i) ==
    IF i <= Len(s) /\ s[i] \in Digits THEN ScanDigits(s, i + 1) ELSE i

\* NUMBER_RE's integer part: -?(0|[1-9]\d*)
ScanNumber(s, i) ==
    LET d == IF i <= Len(s) /\ s[i] = "-" THEN i + 1 ELSE i
    IN  IF d > Len(s) \/ s[d] \notin Digits THEN DecodeError
        ELSE LET e == IF s[d] = "0" THEN d + 1 ELSE ScanDigits(s, d)
             IN  Decoded(JsonValue("num", SubSeq(s, i, e - 1), <<>>), e)

RECURSIVE ScanOnce(_, _), ScanMembers(_, _, _, _), ScanElements(_, _, _)

\* JSONObject's loop: i is the position after the opening quote of a key
ScanMembers(s, i, src, items) ==
    LET key == ScanString(s, i, <<>>)
        c == SkipJsonWs(s, key.nxt)
        val == ScanOnce(s, SkipJsonWs(s, c + 1))
        d == SkipJsonWs(s, val.nxt)
        src2 == src \o <<Quote>> \o key.val.src \o <<Quote, Colon>> \o val.val.src
        items2 == Append(items, [key |-> key.val.src, val |-> val.val])
        k == SkipJsonWs(s, d + 1)
    IN  IF ~key.ok \/ c > Len(s) \/ s[c] # Colon THEN DecodeError
        ELSE IF ~val.ok \/ d > Len(s) THEN DecodeError
        ELSE IF s[d] = RBrace
             THEN Decoded(JsonValue("obj", src2 \o <<RBrace>>, items2), d + 1)
        ELSE IF s[d] # Comma \/ k > Len(s) \/ s[k] # Quote THEN DecodeError
        ELSE ScanMembers(s, k + 1, src2 \o <<Comma>>, items2)

\* JSONArray's loop: i is the position of the next element
ScanElements(s, i, src) ==
    LET val == ScanOnce(s, i)
        d == SkipJsonWs(s, val.nxt)
        src2 == src \o val.val.src
    IN  IF ~val.ok \/ d > Len(s) THEN DecodeError
        ELSE IF s[d] = RBrack
             THEN Decoded(JsonValue("list", src2 \o <<RBrack>>, <<>>), d + 1)
        ELSE IF s[d] # Comma THEN DecodeError
        ELSE ScanElements(s, SkipJsonWs(s, d + 1), src2 \o <<Comma>>)

\* scan_once: the value starting at position i
ScanOnce(s, i) ==
    IF i > Len(s) THEN DecodeError
    ELSE IF s[i] = Quote THEN ScanString(s, i + 1, <<>>)
    ELSE IF s[i] = LBrace THEN
        LET j == SkipJsonWs(s, i + 1)
        IN  IF j > Len(s) THEN DecodeError
            ELSE IF s[j] = RBrace THEN Decoded(EmptyDict, j + 1)
            ELSE IF s[j] # Quote THEN DecodeError
            ELSE ScanMembers(s, j + 1, <<LBrace>>, <<>>)
    ELSE IF s[i] = LBrack THEN
        LET j == SkipJsonWs(s, i + 1)
        IN  IF j > Len(s) THEN DecodeError
            ELSE IF s[j] = RBrack THEN Decoded(EmptyList, j + 1)
            ELSE ScanElements(s, j, <<LBrack>>)
    ELSE IF StartsWith(s, i, <<"n", "u", "l", "l">>) THEN Decoded(JsonNull, i + 4)
    ELSE IF StartsWith(s, i, <<"t", "r", "u", "e">>)
         THEN Decoded(JsonValue("bool", <<"t", "r", "u", "e">>, <<>>), i + 4)
    ELSE IF StartsWith(s, i, <<"f", "a", "l", "s", "e">>)
         THEN Decoded(JsonValue("bool", <<"f", "a", "l", "s", "e">>, <<>>), i + 5)
    ELSE ScanNumber(s, i)

\* json.loads(s): leading whitespace, one value, trailing whitespace, end
json_loads(s) ==
    LET r == ScanOnce(s, SkipJsonWs(s, 1))
    IN  IF r.ok /\ SkipJsonWs(s, r.nxt) = Len(s) + 1 THEN r ELSE DecodeError

\* dict(pairs): the mapping json.loads builds from an object's members, a
\* repeated key keeping its last value
LastValue(items, key) ==
    LET i == CHOOSE i \in 1..Len(items) :
                 /\ items[i].key = key
                 /\ \A j \in (i + 1)..Len(items) : items[j].key # key
    IN  items[i].val

ToDict(items) ==
    [key \in {items[i].key : i \in 1..Len(items)} |-> LastValue(items, key)]

EmptyData == [key \in {} |-> JsonNull]

(***************************************************************************)
(* Replies of the backend.                                                 *)
(***************************************************************************)
RECURSIVE StringsUpTo(_)
StringsUpTo(n) ==
    IF n = 0 THEN {<<>>}
    ELSE LET shorter == StringsUpTo(n - 1)
         IN  shorter \cup {Append(s, c) : s \in shorter, c \in Alphabet}

\* "I cannot comply."
TextRefusal ==
    <<"I", " ", "c", "a", "n", "n", "o", "t", " ", "c", "o", "m", "p", "l", "y", ".">>
\* "{bad json"
TextBadJson == <<"{", "b", "a", "d", " ", "j", "s", "o", "n">>
\* 'Sure! ~~~json\n{"name": "Bob", "age": null,}\n~~~' ('~' stands for the
\* backquote of a markdown fence, which a TLA+ string cannot hold)
TextFenced ==
    <<"S", "u", "r", "e", "!", " ", "~", "~", "~", "j", "s", "o", "n", "\n",
      "{", "\"", "n", "a", "m", "e", "\"", ":", " ", "\"", "B", "o", "b", "\"",
      ",", " ", "\"", "a", "g", "e", "\"", ":", " ", "n", "u", "l", "l", ",",
      "}", "\n", "~", "~", "~">>
\* '{"name":"Bob","age":1}'
TextPerson ==
    <<"{", "\"", "n", "a", "m", "e", "\"", ":", "\"", "B", "o", "b", "\"", ",",
      "\"", "a", "g", "e", "\"", ":", "1", "}">>
\* '{"id":1}'
TextId == <<"{", "\"", "i", "d", "\"", ":", "1", "}">>
\* '{"n":1}'
TextN == <<"{", "\"", "n", "\"", ":", "1", "}">>
\* '{"n":null}'
TextNNull == <<"{", "\"", "n", "\"", ":", "n", "u", "l", "l", "}">>
\* '{"n":"1"}'
TextNStr == <<"{", "\"", "n", "\"", ":", "\"", "1", "\"", "}">>
\* '{"n":"b"}'
TextNBad == <<"{", "\"", "n", "\"", ":", "\"", "b", "\"", "}">>
\* '{"n":1,"n":null}'
TextNTwice ==
    <<"{", "\"", "n", "\"", ":", "1", ",", "\"", "n", "\"", ":", "n", "u", "l",
      "l", "}">>
\* '{"xs":null}'
TextXsNull == <<"{", "\"", "x", "s", "\"", ":", "n", "u", "l", "l", "}">>
\* '{"xs":[1]}'
TextXs == <<"{", "\"", "x", "s", "\"", ":", "[", "1", "]", "}">>
\* '{"a":null}'
TextANull == <<"{", "\"", "a", "\"", ":", "n", "u", "l", "l", "}">>
\* '{"a":null,"xs":null,}'
TextNulls ==
    <<"{", "\"", "a", "\"", ":", "n", "u", "l", "l", ",", "\"", "x", "s", "\"",
      ":", "n", "u", "l", "l", ",", "}">>
\* '{"d":null,"xs":[1,],"n":1}'
TextMixed ==
    <<"{", "\"", "d", "\"", ":", "n", "u", "l", "l", ",", "\"", "x", "s", "\"",
      ":", "[", "1", ",", "]", ",", "\"", "n", "\"", ":", "1", "}">>
\* '{"zz":1}'
TextUnknownKey == <<"{", "\"", "z", "z", "\"", ":", "1", "}">>
\* ',,}'
TextCommas == <<",", ",", "}">>
\* '{"n":1,,}'
TextDoubleComma == <<"{", "\"", "n", "\"", ":", "1", ",", ",", "}">>
\* '{"a":"b\n"}'
TextNewlineInString == <<"{", "\"", "a", "\"", ":", "\"", "b", "\n", "\"", "}">>
\* '{"a":"b\n"}"'
TextStrayQuote ==
    <<"{", "\"", "a", "\"", ":", "\"", "b", "\n", "\"", "}", "\"">>
\* "partial"
TextPartial == <<"p", "a", "r", "t", "i", "a", "l">>

SampleTexts ==
    {TextRefusal, TextBadJson, TextFenced, TextPerson, TextId, TextN,
     TextNNull, TextNStr, TextNBad, TextNTwice, TextXsNull, TextXs, TextANull,
     TextNulls, TextMixed, TextUnknownKey, TextCommas, TextDoubleComma,
     TextNewlineInString,
     TextStrayQuote}

Texts == StringsUpTo(MaxTextLen) \cup SampleTexts

\* a chunk of the streamed reply; only its "text" is read
Chunk(text) == [text |-> text]

\* list(response): no chunk, one final chunk, or a partial chunk and then
\* the final one
ChunkSeqs ==
    {<<>>} \cup {<<Chunk(t)>> : t \in Texts}
           \cup {<<Chunk(TextPartial), Chunk(t)>> : t \in SampleTexts}

(***************************************************************************)
(* Output types.  str and StreamedStr are the string types; the others     *)
(* are pydantic BaseModel subclasses, each a sequence of fields.  A        *)
(* field's annotation is <<atom>> or <<"Union", atom, ..., atom>>          *)
(* (Optional[T] is Union[T, NoneType]); "required" and "default" are the   *)
(* field's declaration, which complete never reads.                        *)
(***************************************************************************)
StrTypes == {"str", "StreamedStr"}
ModelTypes == {"Person", "Note", "Entry"}
OutputTypeUniverse == StrTypes \cup ModelTypes

Field(name, annotation, required, default) ==
    [name |-> name, annotation |-> annotation, required |-> required,
     default |-> default]

\* class Person(BaseModel): name: str; age: int
\* class Note(BaseModel): a: Optional[str] = None; xs: Optional[List[Any]] = None
\* class Entry(BaseModel): id: Optional[int] = None;
\*     xs: Optional[List[Any]] = None; d: Dict[str, Any] = {}; n: int = 5
ModelFields(type_) ==
    CASE type_ = "Person" ->
           <<Field(<<"n", "a", "m", "e">>, <<"str">>, TRUE, JsonNull),
             Field(<<"a", "g", "e">>, <<"int">>, TRUE, JsonNull)>>
      [] type_ = "Note" ->
           <<Field(<<"a">>, <<"Union", "str", "NoneType">>, FALSE, JsonNull),
             Field(<<"x", "s">>, <<"Union", "list", "NoneType">>, FALSE, JsonNull)>>
      [] type_ = "Entry" ->
           <<Field(<<"i", "d">>, <<"Union", "int", "NoneType">>, FALSE, JsonNull),
             Field(<<"x", "s">>, <<"Union", "list", "NoneType">>, FALSE, JsonNull),
             Field(<<"d">>, <<"dict">>, FALSE, EmptyDict),
             Field(<<"n">>, <<"int">>, FALSE, JsonValue("num", <<"5">>, <<>>))>>
      [] OTHER -> <<>>

FieldNames(type_) == {ModelFields(type_)[i].name : i \in 1..Len(ModelFields(type_))}

FieldNamed(type_, name) ==
    LET fs == ModelFields(type_)
    IN  fs[CHOOSE i \in 1..Len(fs) : fs[i].name = name]

RECURSIVE SeqsUpTo(_, _)
SeqsUpTo(S, n) ==
    IF n = 0 THEN {<<>>}
    ELSE LET shorter == SeqsUpTo(S, n - 1)
         IN  shorter \cup {Append(s, x) : s \in shorter, x \in S}

\* the output_types argument: None or a list of types
OutputTypeArgs == {NoneList} \cup SeqsUpTo(OutputTypeUniverse, MaxOutputTypes)

\* the functions argument: None or a list of callables, by name
FunctionArgs == {NoneList, <<"f">>}

(***************************************************************************)
(* complete, step by step.                                                 *)
(***************************************************************************)
\* _initialize_client without its presence check: a PoeApi object per call
InitializeClientAlways(self_client, constructed) == constructed + 1

\* _initialize_client: the client after the presence check; a PoeApi
\* object is identified by its ordinal among those constructed
initialize_client(self_client, constructed) ==
    IF self_client = NoObject THEN constructed + 1 ELSE self_client

\* output_types as defaulted at the top of complete
resolve_output_types(functions, output_types) ==
    IF output_types = NoneList
    THEN (IF functions # NoneList /\ functions # <<>> THEN <<>> ELSE <<"str">>)
    ELSE output_types

\* allow_string_output without its StreamedStr half
AllowStrOnly(output_types) ==
    \E i \in 1..Len(output_types) : output_types[i] = "str"

\* is_any_origin_subclass(output_types, str) or
\* is_any_origin_subclass(output_types, StreamedStr)
allow_string_output(output_types) ==
    \/ \E i \in 1..Len(output_types) : output_types[i] = "str"
    \/ \E i \in 1..Len(output_types) : output_types[i] = "StreamedStr"

\* the names of tool_schemas: one per function, then one per output type
\* that is not a string type
SchemaName(type_) ==
    CASE type_ = "Person" -> "return_person"
      [] type_ = "Note" -> "return_note"
      [] type_ = "Entry" -> "return_entry"
      [] OTHER -> type_

tool_schemas(functions, output_types) ==
    (IF functions = NoneList THEN <<>> ELSE functions)
    \o [i \in 1..Len(SelectSeq(output_types, LAMBDA t : t \notin StrTypes)) |->
          SchemaName(SelectSeq(output_types, LAMBDA t : t \notin StrTypes)[i])]

get_tool_choice(schemas, allow_string) ==
    IF allow_string THEN None
    ELSE IF Len(schemas) = 1 THEN schemas[1]
    ELSE "auto"

\* what is appended to the joined messages, each part a sequence that is
\* empty when the part is not appended: "Available tools:" with
\* json.dumps(schemas_list), always; the "Please use the ... tool." line,
\* when there is a tool schema
prompt_suffix(functions, output_types) ==
    LET schemas == tool_schemas(functions, output_types)
    IN  [catalog |-> <<schemas>>,
         instruction |->
             IF schemas # <<>>
             THEN <<get_tool_choice(schemas, allow_string_output(output_types))>>
             ELSE <<>>]

\* the placeholder of one field in default_data
default_for_field(field_name, annotation) ==
    LET args == SelectSeq(Tail(annotation), LAMBDA t : t # "NoneType")
        field_type == IF Head(annotation) = "Union" THEN Head(args)
                      ELSE Head(annotation)
    IN  IF field_type = "list" THEN EmptyList
        ELSE IF field_type = "dict" THEN EmptyDict
        ELSE JsonNull

build_default_data(output_model) ==
    [name \in FieldNames(output_model) |->
        default_for_field(name, FieldNamed(output_model, name).annotation)]

\* the update loop without its None test
MergeValueOverwrites(placeholder, value) == value

\* the update loop: a parsed value replaces the placeholder of a declared
\* field unless it is None
merge_value(placeholder, value) ==
    IF value.kind # "null" THEN value ELSE placeholder

merge_parsed(default_data, parsed_json) ==
    [key \in DOMAIN default_data |->
        IF key \in DOMAIN parsed_json
        THEN merge_value(default_data[key], parsed_json[key])
        ELSE default_data[key]]

\* the mapping returned when the first output type is no BaseModel
normalise_value(value) ==
    IF value.kind = "null"
    THEN (IF value.kind = "list" THEN EmptyList ELSE EmptyDict)
    ELSE value

normalise_parsed(parsed_json) ==
    [key \in DOMAIN parsed_json |-> normalise_value(parsed_json[key])]

(***************************************************************************)
(* pydantic's model_validate of a mapping that holds every field (lax      *)
(* mode): a value is taken when some member of the annotation accepts      *)
(* it; an int also accepts a string of digits, which it converts.          *)
(***************************************************************************)
IsNumeral(src) == Len(src) > 0 /\ \A i \in 1..Len(src) : src[i] \in Digits

Accepts(atom, value) ==
    CASE atom = "NoneType" -> value.kind = "null"
      [] atom = "str" -> value.kind = "str"
      [] atom = "int" ->
           value.kind = "num" \/ (value.kind = "str" /\ IsNumeral(value.src))
      [] atom = "list" -> value.kind = "list"
      [] atom = "dict" -> value.kind = "obj"
      [] OTHER -> FALSE

Atoms(annotation) ==
    IF Head(annotation) = "Union"
    THEN {annotation[i] : i \in 2..Len(annotation)}
    ELSE {Head(annotation)}

FieldValid(annotation, value) == \E atom \in Atoms(annotation) : Accepts(atom, value)

Converted(annotation, value) ==
    IF /\ value.kind = "str"
       /\ "str" \notin Atoms(annotation)
       /\ "int" \in Atoms(annotation)
    THEN JsonValue("num", value.src, <<>>)
    ELSE value

model_validate(output_model, data) ==
    [ok |-> \A name \in FieldNames(output_model) :
                FieldValid(FieldNamed(output_model, name).annotation, data[name]),
     fields |-> [name \in FieldNames(output_model) |->
                    Converted(FieldNamed(output_model, name).annotation, data[name])]]

(***************************************************************************)
(* The content of an AssistantMessage, and what a call of complete ends    *)
(* with: raised is None or the name of the exception.                      *)
(***************************************************************************)
Content(kind, text, type_, data) ==
    [kind |-> kind, text |-> text, type |-> type_, data |-> data]

NoContent == Content("none", <<>>, "", EmptyData)
StrContent(text) == Content("str", text, "", EmptyData)
DictContent(data) == Content("dict", <<>>, "", data)
ModelContent(type_, fields) == Content("model", <<>>, type_, fields)

Outcome(raised, msg, content, default_data) ==
    [raised |-> raised, msg |-> msg, content |-> content,
     default_data |-> default_data]

Returns(content, default_data) == Outcome(None, None, content, default_data)
Raises(exception, msg) == Outcome(exception, msg, NoContent, EmptyData)

\* the message of the StructuredOutputError complete raises
ParseFailureMsg ==
    "Failed to parse model output as JSON. You may need to update your prompt to encourage the model to return a specific type."

\* the fallback handing back the cleaned text instead of the reply
StringFallbackCleaned(full_response, cleaned_json) == StrContent(cleaned_json)

\* validate_str_content(full_response, allow_string_output=True, ...): the
\* string itself
string_fallback(full_response, cleaned_json) == StrContent(full_response)

\* the except branch of complete
on_decode_error(output_types, full_response, cleaned_json) ==
    IF allow_string_output(output_types)
    THEN Returns(string_fallback(full_response, cleaned_json), EmptyData)
    ELSE Raises("StructuredOutputError", ParseFailureMsg)

\* the except branch falling back to the placeholders alone
ValidatedContentKeepsPlaceholders(output_model, default_data) ==
    LET v == model_validate(output_model, default_data)
    IN  IF v.ok THEN ModelContent(output_model, v.fields)
        ELSE DictContent(build_default_data(output_model))

\* the try/except around model_validate
validated_content(output_model, default_data) ==
    LET v == model_validate(output_model, default_data)
    IN  IF v.ok THEN ModelContent(output_model, v.fields)
        ELSE DictContent(default_data)

\* the body of the try block once json.loads has returned parsed_json
on_parsed(output_types, parsed_json) ==
    IF output_types # <<>> /\ Head(output_types) \in ModelTypes
    THEN LET output_model == Head(output_types)
             default_data == merge_parsed(build_default_data(output_model),
                                          parsed_json)
         IN  Returns(validated_content(output_model, default_data), default_data)
    ELSE Returns(DictContent(normalise_parsed(parsed_json)), EmptyData)

\* chunks[-1] and everything after it
reduce_and_coerce(chunks, output_types) ==
    IF chunks = <<>> THEN Raises("IndexError", "list index out of range")
    ELSE LET full_response == chunks[Len(chunks)].text
             cleaned_json == clean_json_string(full_response)
             parsed == json_loads(json_limiter(cleaned_json))
         IN  IF parsed.ok
             THEN on_parsed(output_types, ToDict(parsed.val.items))
             ELSE on_decode_error(output_types, full_response, cleaned_json)

(***************************************************************************)
(* __init__: the arguments as the signature defaults them, then the        *)
(* environment for each argument that is None.                             *)
(***************************************************************************)
Omitted == "Omitted"
DefaultModel == "claude_3_igloo"

ModelArgs == {Omitted, None, "llama31405bt"}
TokenArgs == {Omitted, None, "", "token_arg"}
EnvValues == {None, "env_value"}
\* os.environ, by the three names __init__ reads
Environments ==
    [MAGENTIC_POE_API_WRAPPER_MODEL : EnvValues,
     MAGENTIC_POE_API_WRAPPER_TOKEN_P_B : EnvValues,
     MAGENTIC_POE_API_WRAPPER_TOKEN_P_LAT : EnvValues]

with_default(arg, default) == IF arg = Omitted THEN default ELSE arg

\* the environment consulted before the argument
ResolveEnvFirst(arg, env_value) == IF env_value # None THEN env_value ELSE arg

\* an argument, or the environment's value when the argument is None
resolve_setting(arg, env_value) == IF arg = None THEN env_value ELSE arg

Unset == "Unset"

init_adapter(arg_model, arg_p_b, arg_p_lat, env) ==
    LET m == resolve_setting(with_default(arg_model, DefaultModel),
                             env.MAGENTIC_POE_API_WRAPPER_MODEL)
        b == resolve_setting(with_default(arg_p_b, None),
                             env.MAGENTIC_POE_API_WRAPPER_TOKEN_P_B)
        l == resolve_setting(with_default(arg_p_lat, None),
                             env.MAGENTIC_POE_API_WRAPPER_TOKEN_P_LAT)
        missing == IF m = None THEN "MAGENTIC_POE_API_WRAPPER_MODEL"
                   ELSE IF b = None THEN "MAGENTIC_POE_API_WRAPPER_TOKEN_P_B"
                   ELSE IF l = None THEN "MAGENTIC_POE_API_WRAPPER_TOKEN_P_LAT"
                   ELSE None
    IN  IF missing # None
        THEN [raised |-> "ValueError", names |-> missing,
              model |-> Unset, token_p_b |-> Unset, token_p_lat |-> Unset]
        ELSE [raised |-> None, names |-> None,
              model |-> m, token_p_b |-> b, token_p_lat |-> l]

(***************************************************************************)
(* State.                                                                  *)
(***************************************************************************)
VARIABLES
    pc,            \* "new": no adapter yet; "failed": __init__ raised;
                   \* "idle": between calls; "returned": a call has ended
    model,         \* self._model
    token_p_b,     \* self._token_p_b
    token_p_lat,   \* self._token_p_lat
    client,        \* self._client: NoObject or the ordinal of a PoeApi object
    constructed,   \* the number of PoeApi objects constructed so far
    ctor,          \* the arguments and environment __init__ ran with
    call,          \* the arguments and the chunks of the last call
    sent,          \* the last send_message: the session and the prompt suffix
    result         \* what the last call ended with

vars == <<pc, model, token_p_b, token_p_lat, client, constructed, ctor, call,
          sent, result>>

NoCtor == [arg_model |-> Unset, arg_p_b |-> Unset, arg_p_lat |-> Unset,
           env |-> [MAGENTIC_POE_API_WRAPPER_MODEL |-> None,
                    MAGENTIC_POE_API_WRAPPER_TOKEN_P_B |-> None,
                    MAGENTIC_POE_API_WRAPPER_TOKEN_P_LAT |-> None],
           raised |-> None, names |-> None]
NoCall == [entry |-> None, functions |-> NoneList, output_types |-> NoneList,
           chunks |-> <<>>, client_before |-> NoObject]
NoSend == [session |-> NoObject, catalog |-> <<>>, instruction |-> <<>>]
NoResult == Raises(None, None)

\* PoeApiWrapperChatModel(arg_model, arg_p_b, arg_p_lat) under env
Construct(arg_model, arg_p_b, arg_p_lat, env) ==
    /\ pc = "new"
    /\ LET r == init_adapter(arg_model, arg_p_b, arg_p_lat, env)
       IN  /\ pc' = IF r.raised = None THEN "idle" ELSE "failed"
           /\ model' = r.model
           /\ token_p_b' = r.token_p_b
           /\ token_p_lat' = r.token_p_lat
           /\ client' = NoObject
           /\ ctor' = [arg_model |-> arg_model, arg_p_b |-> arg_p_b,
                       arg_p_lat |-> arg_p_lat, env |-> env,
                       raised |-> r.raised, names |-> r.names]
    /\ UNCHANGED <<constructed, call, sent, result>>

\* whether PoeApi(tokens) returns a session (it is called only while there
\* is no client)
PoeOutcomes == IF client = NoObject THEN BOOLEAN ELSE {TRUE}

\* complete(messages, functions, output_types) when PoeApi(tokens) raises
\* (poe_ok false) or the backend answers with chunks
CompleteBody(entry, functions, output_types, poe_ok, chunks) ==
    /\ call' = [entry |-> entry, functions |-> functions,
                output_types |-> output_types, chunks |-> chunks,
                client_before |-> client]
    /\ pc' = "returned"
    /\ UNCHANGED <<model, token_p_b, token_p_lat, ctor>>
    /\ LET new_client == initialize_client(client, constructed)
           types == resolve_output_types(functions, output_types)
           suffix == prompt_suffix(functions, types)
       IN  IF new_client # client /\ ~poe_ok
           THEN /\ result' = Raises("TransportError", None)
                /\ UNCHANGED <<client, constructed, sent>>
           ELSE /\ client' = new_client
                /\ constructed' = IF new_client # client THEN constructed + 1
                                  ELSE constructed
                /\ sent' = [session |-> new_client, catalog |-> suffix.catalog,
                            instruction |-> suffix.instruction]
                /\ result' = reduce_and_coerce(chunks, types)

Complete ==
    /\ pc = "idle"
    /\ constructed < MaxSessions
    /\ \E functions \in FunctionArgs, output_types \in OutputTypeArgs,
          poe_ok \in PoeOutcomes, chunks \in ChunkSeqs :
           CompleteBody("complete", functions, output_types, poe_ok, chunks)

\* acomplete: return self.complete(messages, functions, output_types, stop=stop)
AComplete ==
    /\ pc = "idle"
    /\ constructed < MaxSessions
    /\ \E functions \in FunctionArgs, output_types \in OutputTypeArgs,
          poe_ok \in PoeOutcomes, chunks \in ChunkSeqs :
           CompleteBody("acomplete", functions, output_types, poe_ok, chunks)

\* the caller takes the message or the exception and may call again
Resume ==
    /\ pc = "returned"
    /\ pc' = "idle"
    /\ call' = NoCall
    /\ sent' = NoSend
    /\ result' = NoResult
    /\ UNCHANGED <<model, token_p_b, token_p_lat, client, constructed, ctor>>

\* an adapter built with both tokens given and the model defaulted
Init ==
    /\ pc = "idle"
    /\ model = DefaultModel
    /\ token_p_b = "token_arg"
    /\ token_p_lat = "token_arg"
    /\ client = NoObject
    /\ constructed = 0
    /\ ctor = [arg_model |-> Omitted, arg_p_b |-> "token_arg",
               arg_p_lat |-> "token_arg", env |-> NoCtor.env,
               raised |-> None, names |-> None]
    /\ call = NoCall
    /\ sent = NoSend
    /\ result = NoResult

Next == Complete \/ AComplete \/ Resume

Spec == Init /\ [][Next]_vars

\* before construction
InitCtor ==
    /\ pc = "new"
    /\ model = Unset
    /\ token_p_b = Unset
    /\ token_p_lat = Unset
    /\ client = NoObject
    /\ constructed = 0
    /\ ctor = NoCtor
    /\ call = NoCall
    /\ sent = NoSend
    /\ result = NoResult

NextCtor ==
    \E arg_model \in ModelArgs, arg_p_b \in TokenArgs, arg_p_lat \in TokenArgs,
       env \in Environments :
        Construct(arg_model, arg_p_b, arg_p_lat, env)

SpecCtor == InitCtor /\ [][NextCtor]_vars
(***************************************************************************)
(* Properties.                                                             *)
(***************************************************************************)
\* a call that sent its prompt and got at least one chunk back
GotReply == pc = "returned" /\ sent.session # NoObject /\ call.chunks # <<>>

\* the text of the last chunk of the call
LastText == call.chunks[Len(call.chunks)].text

\* output_types as complete reads it after defaulting
RequestedTypes == resolve_output_types(call.functions, call.output_types)

HasStringType(types) ==
    \E i \in 1..Len(types) : types[i] \in {"str", "StreamedStr"}

\* the substring handed to json.loads and what json.loads makes of it
SalvagedText == json_limiter(clean_json_string(LastText))
ParsedOk == json_loads(SalvagedText).ok
ParsedJson == ToDict(json_loads(SalvagedText).val.items)

\* the first output type is a BaseModel and the reply parsed: the branch
\* that builds default_data
StructuredBranch ==
    /\ GotReply
    /\ ParsedOk
    /\ RequestedTypes # <<>>
    /\ Head(RequestedTypes) \in ModelTypes

\* the placeholder the schema gives a field: an empty list or dict for a
\* container, Optional or not, None for everything else
ExpectedPlaceholder(annotation) ==
    IF "list" \in Atoms(annotation) THEN EmptyList
    ELSE IF "dict" \in Atoms(annotation) THEN EmptyDict
    ELSE JsonNull

\* C1: whenever a BaseModel type is among the requested output types and
\* the salvaged substring parses, the call returns content holding an entry
\* for every declared field of that type, whatever its position
C1_AllFieldsPresent ==
    (GotReply /\ ParsedOk) =>
        \A i \in 1..Len(RequestedTypes) :
            RequestedTypes[i] \in ModelTypes =>
                /\ result.raised = None
                /\ FieldNames(RequestedTypes[i]) \subseteq DOMAIN result.content.data

\* no '{' is followed, anywhere later in the text, by a '}'
NoBracePair(text) ==
    ~ \E i \in 1..Len(text), j \in 1..Len(text) :
        i < j /\ text[i] = LBrace /\ text[j] = RBrace

\* C2: a reply without a '{' ... '}' pair, with str or StreamedStr among
\* the output types, is returned as it was received: nothing is raised and
\* the content is the raw text, not the cleaned one
C2_FallbackReturnsRawText ==
    (GotReply /\ NoBracePair(LastText) /\ HasStringType(call.output_types)) =>
        /\ result.raised = None
        /\ result.content.kind = "str"
        /\ result.content.text = LastText

\* a brace-free reply that the cleanup pass would change came back raw
C2_Witness ==
    /\ GotReply
    /\ NoBracePair(LastText)
    /\ HasStringType(call.output_types)
    /\ clean_json_string(LastText) # LastText
    /\ result.content.text = LastText

\* C3: StructuredOutputError is raised exactly when the salvaged substring
\* fails to parse and neither str nor StreamedStr is among the output
\* types; it carries the prompt-adjustment message and no content
C3_StructuredOutputErrorExactly ==
    pc = "returned" =>
        /\ result.raised = "StructuredOutputError" <=>
               (GotReply /\ ~ParsedOk /\ ~HasStringType(RequestedTypes))
        /\ result.raised = "StructuredOutputError" =>
               (result.msg = ParseFailureMsg /\ result.content = NoContent)

\* "{bad json" for a Person, no string output allowed
C3_Witness ==
    /\ GotReply
    /\ LastText = TextBadJson
    /\ call.output_types = <<"Person">>
    /\ result.raised = "StructuredOutputError"

\* every field of the type is Optional or declares a default
AllDefaultable(type_) ==
    \A i \in 1..Len(ModelFields(type_)) : ~ModelFields(type_)[i].required

\* C4: for a requested type whose fields are all optional or defaulted and
\* a reply whose JSON object holds a subset of those fields (each with a
\* value its field accepts), the call returns a validated instance of the
\* type in which every absent field holds its default (the declared one
\* or the schema's placeholder)
C4_DefaultableTypeValidates ==
    (/\ GotReply
     /\ ParsedOk
     /\ Len(RequestedTypes) = 1
     /\ Head(RequestedTypes) \in ModelTypes
     /\ AllDefaultable(Head(RequestedTypes))
     /\ DOMAIN ParsedJson \subseteq FieldNames(Head(RequestedTypes))
     /\ \A key \in DOMAIN ParsedJson :
            /\ ParsedJson[key].kind # "null"
            /\ FieldValid(FieldNamed(Head(RequestedTypes), key).annotation,
                          ParsedJson[key]))
    => /\ result.raised = None
       /\ result.content.kind = "model"
       /\ result.content.type = Head(RequestedTypes)
       /\ \A name \in FieldNames(Head(RequestedTypes)) \ DOMAIN ParsedJson :
              result.content.data[name] \in
                  {FieldNamed(Head(RequestedTypes), name).default,
                   ExpectedPlaceholder(FieldNamed(Head(RequestedTypes), name).annotation)}

ExpectedMerged(type_) ==
    [name \in FieldNames(type_) |->
        IF name \in DOMAIN ParsedJson /\ ParsedJson[name].kind # "null"
        THEN ParsedJson[name]
        ELSE ExpectedPlaceholder(FieldNamed(type_, name).annotation)]

ValidationFails(type_) ==
    \E name \in FieldNames(type_) :
        ~FieldValid(FieldNamed(type_, name).annotation, ExpectedMerged(type_)[name])

\* C6: when the merged mapping fails validation against the requested
\* type, nothing is raised and the content is the unvalidated merged
\* mapping
C6_ValidationFailureDegrades ==
    (StructuredBranch /\ ValidationFails(Head(RequestedTypes))) =>
        /\ result.raised = None
        /\ result.content = DictContent(ExpectedMerged(Head(RequestedTypes)))

\* the fenced reply {"name": "Bob", "age": null,} for a Person: age stays
\* None, which an int field rejects
C6_Witness ==
    /\ StructuredBranch
    /\ LastText = TextFenced
    /\ Head(RequestedTypes) = "Person"
    /\ ValidationFails("Person")
    /\ result.content.kind = "dict"
    /\ result.content.data[<<"n", "a", "m", "e">>].src = <<"B", "o", "b">>

\* C7: an empty chunk sequence ends the call with EmptyResponseError
C7_EmptyResponseError ==
    (pc = "returned" /\ sent.session # NoObject /\ call.chunks = <<>>) =>
        result.raised = "EmptyResponseError"

\* C8: no session exists before the first call, at most one PoeApi object
\* is ever constructed, a session once set is never replaced or dropped,
\* and every send goes through it
C8_SessionStep ==
    /\ constructed \in {0, 1} /\ constructed' \in {0, 1}
    /\ (constructed = 0) <=> (client = NoObject)
    /\ (constructed' = 0) <=> (client' = NoObject)
    /\ client # NoObject => (client' = client /\ constructed' = constructed)
    /\ (pc' = "returned" /\ sent'.session # NoObject) =>
           (sent'.session = client' /\ call'.client_before \in {NoObject, client'})

C8_SessionCreatedOnceAndReused == [][C8_SessionStep]_vars

\* an acomplete call sent through the session an earlier call created
C8_Witness ==
    /\ pc = "returned"
    /\ call.entry = "acomplete"
    /\ call.client_before # NoObject
    /\ sent.session = call.client_before
    /\ constructed = 1

\* the settings __init__ finds in neither place
ArgAbsent(arg) == arg \in {Omitted, None}
ModelAbsent == ArgAbsent(ctor.arg_model) /\ ctor.env.MAGENTIC_POE_API_WRAPPER_MODEL = None
TokenPBAbsent == ArgAbsent(ctor.arg_p_b) /\ ctor.env.MAGENTIC_POE_API_WRAPPER_TOKEN_P_B = None
TokenPLatAbsent ==
    ArgAbsent(ctor.arg_p_lat) /\ ctor.env.MAGENTIC_POE_API_WRAPPER_TOKEN_P_LAT = None

FromArgOrEnv(arg, env_value) == IF ArgAbsent(arg) THEN env_value ELSE arg

\* C9 as stated: construction fails (with the configuration error, whatever
\* its class) whenever the model identifier or a token is in neither the
\* arguments nor the environment, and otherwise succeeds with the argument
\* taking precedence over the environment
C9_FailsWhenAnySettingAbsent ==
    pc # "new" =>
        /\ (ModelAbsent \/ TokenPBAbsent \/ TokenPLatAbsent) =>
               (pc = "failed" /\ ctor.raised # None /\ client = NoObject
                /\ constructed = 0)
        /\ ~(ModelAbsent \/ TokenPBAbsent \/ TokenPLatAbsent) =>
               /\ pc = "idle"
               /\ model = FromArgOrEnv(ctor.arg_model,
                                       ctor.env.MAGENTIC_POE_API_WRAPPER_MODEL)
               /\ token_p_b = FromArgOrEnv(ctor.arg_p_b,
                                           ctor.env.MAGENTIC_POE_API_WRAPPER_TOKEN_P_B)
               /\ token_p_lat = FromArgOrEnv(ctor.arg_p_lat,
                                             ctor.env.MAGENTIC_POE_API_WRAPPER_TOKEN_P_LAT)

\* C9 as amended: construction raises ValueError, leaving no adapter and no
\* session, exactly when a token is in neither place or the model is passed
\* as None and is not in the environment; an omitted model argument is the
\* default "claude_3_igloo" whatever the environment holds; otherwise an
\* argument that is not None wins over the environment
C9_FailsWithValueErrorUnlessDefaulted ==
    pc # "new" =>
        LET model_missing ==
                ctor.arg_model = None /\ ctor.env.MAGENTIC_POE_API_WRAPPER_MODEL = None
            missing == model_missing \/ TokenPBAbsent \/ TokenPLatAbsent
        IN  /\ missing =>
                /\ pc = "failed"
                /\ ctor.raised = "ValueError"
                /\ client = NoObject /\ constructed = 0
                /\ model = Unset /\ token_p_b = Unset /\ token_p_lat = Unset
            /\ ~missing =>
                /\ pc = "idle"
                /\ ctor.raised = None
                /\ client = NoObject /\ constructed = 0
                /\ model = IF ctor.arg_model = Omitted THEN "claude_3_igloo"
                           ELSE FromArgOrEnv(ctor.arg_model,
                                             ctor.env.MAGENTIC_POE_API_WRAPPER_MODEL)
                /\ token_p_b = FromArgOrEnv(ctor.arg_p_b,
                                            ctor.env.MAGENTIC_POE_API_WRAPPER_TOKEN_P_B)
                /\ token_p_lat = FromArgOrEnv(ctor.arg_p_lat,
                                              ctor.env.MAGENTIC_POE_API_WRAPPER_TOKEN_P_LAT)

\* construction failed for want of the p-lat token although the model and
\* the p-b token were given, the latter in both places
C9_Witness ==
    /\ pc = "failed"
    /\ ctor.names = "MAGENTIC_POE_API_WRAPPER_TOKEN_P_LAT"
    /\ ctor.arg_p_b = "token_arg"
    /\ ctor.env.MAGENTIC_POE_API_WRAPPER_TOKEN_P_B = "env_value"
    /\ ctor.raised = "ValueError"

\* C10: cleaning a reply's text twice gives what cleaning it once gives
C10_CleanIdempotent ==
    GotReply =>
        clean_json_string(clean_json_string(LastText)) = clean_json_string(LastText)

\* the tool schemas complete builds for the call
CallTools == tool_schemas(call.functions, RequestedTypes)

\* C11: with one tool schema the instruction line names that tool, with
\* several it names "auto", string output allowed or not; with none,
\* neither the tool catalog nor the instruction line is appended
C11_InstructionNamesToolOrAuto ==
    (pc = "returned" /\ sent.session # NoObject) =>
        /\ Len(CallTools) = 1 => sent.instruction = <<CallTools[1]>>
        /\ Len(CallTools) > 1 => sent.instruction = <<"auto">>
        /\ Len(CallTools) = 0 => (sent.catalog = <<>> /\ sent.instruction = <<>>)

\* C12: the string handed to json.loads is the cleanup of the reply's
\* first-'{'-to-last-'}' slice, so the parse succeeds exactly when that
\* string parses, whatever surrounds the slice
C12_SliceThenClean ==
    GotReply =>
        /\ SalvagedText = clean_json_string(json_limiter(LastText))
        /\ ParsedOk <=> json_loads(clean_json_string(json_limiter(LastText))).ok
=============================================================================
